---- MODULE Spec2Model ----
(***************************************************************************)
(* Address pools of the wallet's default account (wallet/addresspool.go).  *)
(*                                                                         *)
(* An addressPool caches addresses derived by the address manager for one  *)
(* branch.  The pool's methods are modelled as operators that map the pool *)
(* and the manager to their values after the call; the actions below are   *)
(* the calls the wallet and its callers make.  The address manager         *)
(* (waddrmgr), the chain server and the callers of the batch methods are   *)
(* not part of wallet/addresspool.go; the manager is modelled from its     *)
(* description in spec.md section 6.                                       *)
(***************************************************************************)
EXTENDS Integers, Sequences, FiniteSets, TLC

(***************************************************************************)
(* Bounds of the exploration.                                              *)
(***************************************************************************)
\* Replenishments (NextExternalAddresses / NextInternalAddresses calls that
\* succeed) per branch over the whole run.
MaxReplenish == 2
\* Process restarts (wallet closed or killed, then opened again).
MaxRestarts == 1
\* Collaborator failures injected over the whole run.
MaxFaults == 1
\* GetNewAddress calls that advance a pool, per session, in a session whose
\* callers use batches, and in every session of a run that uses both pools.
\* A session of a run with one pool, while it has no batch, is not bounded
\* this way: its callers can take addresses until MaxReplenish stops them,
\* and meet a collaborator failure only within the first MaxCalls calls.
MaxCalls == 2
\* How far below the last derived index the inputs of initialize (the highest
\* index used on chain, the index at which a collaborator fails) can lie.
MaxDepth == 1

(***************************************************************************)
(* Program constants.                                                      *)
(***************************************************************************)
addressPoolBuffer == 20

ExternalBranch == 0
InternalBranch == 1
\* A branch value that is neither waddrmgr.ExternalBranch nor InternalBranch.
UnknownBranch == 2

Branches == {ExternalBranch, InternalBranch}

\* The two pools of a Wallet: w.externalPool and w.internalPool.
Pools == {"externalPool", "internalPool"}

\* The branch the wallet opens each of its pools on.
PoolBranch(p) == IF p = "externalPool" THEN ExternalBranch ELSE InternalBranch

\* A nil dcrutil.Address.  Addresses are <<branch, index>>.
Nil == <<>>

\* sync.Mutex pointer of a pool: nil, unlocked, locked.
NilMutex == "nil"
Unlocked == "unlocked"
Locked == "locked"

Max(x, y) == IF x >= y THEN x ELSE y

(***************************************************************************)
(* Addresses.  EncodeAddress and Hash160 are injective on the addresses of *)
(* one wallet; DecodeAddress parses what EncodeAddress printed.            *)
(***************************************************************************)
Hash160(addr) == addr[2] * 2 + addr[1]

EncodeAddress(addr) == Hash160(addr)

DecodeAddress(str) == <<str % 2, str \div 2>>

(***************************************************************************)
(* The address manager (Derivation Source).  mgr.first is the derivation   *)
(* index of the first address of a branch, mgr.nextIndex[b] the next index *)
(* to derive on branch b, mgr.nextToUse[b] the persisted checkpoint.       *)
(***************************************************************************)
\* addressAt(account, branch, index)
GetAddress(idx, br) == <<br, idx>>

\* lastDerivedIndex(account, branch) -> index, found
LastAddress(mgr, br) ==
    IF mgr.nextIndex[br] > mgr.first
    THEN [found |-> TRUE, index |-> mgr.nextIndex[br] - 1]
    ELSE [found |-> FALSE, index |-> 0]

\* deriveAddresses(account, branch, startIndex, count): the derived managed
\* addresses, in order.
NextAddresses(mgr, br, n) ==
    [i \in 1..n |-> GetAddress(mgr.nextIndex[br] + i - 1, br)]

\* The manager after deriving n addresses of branch br.
AfterNextAddresses(mgr, br, n) ==
    [mgr EXCEPT !.nextIndex[br] = @ + n]

\* nextToUseCheckpoint()
NextToUseAddresses(mgr) == mgr.nextToUse

\* storeNextToUseCheckpoint(ext, int): a nil side is left as it was.
StoreNextToUseAddresses(mgr, extAddr, intAddr) ==
    [mgr EXCEPT !.nextToUse =
        [b \in Branches |->
            IF b = ExternalBranch /\ extAddr # Nil THEN extAddr
            ELSE IF b = InternalBranch /\ intAddr # Nil THEN intAddr
            ELSE @[b]]]

(***************************************************************************)
(* addressPool                                                             *)
(***************************************************************************)
NewAddressPool ==
    [addresses |-> <<>>, cursor |-> 0, branch |-> 0, index |-> 0,
     started |-> FALSE, mutex |-> NilMutex]

\* Faults a call can meet.  ntu: NextToUseAddresses fails; last: the last
\* address lookup fails with an error other than ErrAddressNotFound; getAt:
\* the derivation index at which GetAddress fails (-1: never); chainAt: the
\* index at which existsAddressOnChain fails (-1: never).
NoFault == [ntu |-> FALSE, last |-> FALSE, getAt |-> -1, chainAt |-> -1]

\* getLastAddressIndex: the index and the error it returns.
getLastAddressIndex(mgr, br, fault) ==
    IF br \notin Branches THEN [index |-> 0, err |-> "unknown branch"]
    ELSE IF fault.last THEN [index |-> 0, err |-> "manager"]
    ELSE IF ~LastAddress(mgr, br).found THEN [index |-> 0, err |-> "none"]
    ELSE [index |-> LastAddress(mgr, br).index, err |-> "none"]

\* The comparison of the walk with the stored next to use address.
MatchesSaved(lastSavedAddr, addr) ==
    /\ lastSavedAddr # Nil
    /\ Hash160(lastSavedAddr) = Hash160(addr)

\* A walk that stops at the matching address without keeping it.
InsertMatchDropped(addr, addresses) == addresses

\* The window after the matching address was visited.
InsertMatch(addr, addresses) == <<EncodeAddress(addr)>> \o addresses

\* w.existsAddressOnChain(addr): used is the set of derivation indexes of the
\* branch that have on-chain history.
existsAddressOnChain(addr, used) == addr[2] \in used

\* A walk that keeps the address it found on chain.
StopAtUsedKept(addr, addresses) == <<EncodeAddress(addr)>> \o addresses

\* The window after the walk found an address on chain: the address is left
\* out.
StopAtUsed(addr, addresses) == addresses

\* The loop of initialize: walks down from actualLastIndex, at most
\* addressPoolBuffer steps.
RECURSIVE walk(_, _, _, _, _, _, _, _)
walk(br, actualLastIndex, traversed, addresses, lastSavedAddr, reuse, used, fault) ==
    IF actualLastIndex = 0 \/ traversed = addressPoolBuffer
    THEN [addresses |-> addresses, index |-> actualLastIndex, err |-> "none"]
    ELSE IF fault.getAt = actualLastIndex
    THEN [addresses |-> addresses, index |-> actualLastIndex, err |-> "derivation"]
    ELSE LET addr == GetAddress(actualLastIndex, br) IN
         IF ~reuse /\ MatchesSaved(lastSavedAddr, addr)
         THEN [addresses |-> InsertMatch(addr, addresses),
               index |-> actualLastIndex, err |-> "none"]
         ELSE IF reuse /\ fault.chainAt = actualLastIndex
         THEN [addresses |-> addresses, index |-> actualLastIndex, err |-> "chain"]
         ELSE IF reuse /\ existsAddressOnChain(addr, used)
         THEN [addresses |-> StopAtUsed(addr, addresses),
               index |-> actualLastIndex, err |-> "none"]
         ELSE walk(br, actualLastIndex - 1, traversed + 1,
                   <<EncodeAddress(addr)>> \o addresses,
                   lastSavedAddr, reuse, used, fault)

\* An initialize that starts over on a started pool.
AlreadyStartedIgnored(a) == FALSE

\* Whether initialize returns at once.
AlreadyStarted(a) == a.started

\* A newly initialized wallet whose pool is left unstarted.
FreshPoolUnstarted(a0) == [a0 EXCEPT !.index = 0, !.cursor = 0]

\* The pool of a newly initialized wallet.
FreshPool(a0) == [a0 EXCEPT !.index = 0, !.cursor = 0, !.started = TRUE]

\* initialize(branch, w): the pool after the call and the error returned.
initialize(a, branch, mgr, reuse, used, fault) ==
    IF AlreadyStarted(a) THEN [a |-> a, err |-> "none"]
    ELSE
    LET a0 == [a EXCEPT !.addresses = <<>>, !.mutex = Unlocked, !.branch = branch]
        last == getLastAddressIndex(mgr, branch, fault)
    IN  IF fault.ntu THEN [a |-> a0, err |-> "manager"]
        ELSE IF branch \notin Branches THEN [a |-> a0, err |-> "unknown branch"]
        ELSE IF last.index = 0 /\ last.err = "none"
        THEN [a |-> FreshPool(a0), err |-> "none"]
        ELSE
        LET w == walk(branch, last.index, 0, a0.addresses,
                      NextToUseAddresses(mgr)[branch], reuse, used, fault)
        IN  IF w.err # "none"
            THEN [a |-> [a0 EXCEPT !.addresses = w.addresses], err |-> w.err]
            ELSE [a |-> [a0 EXCEPT !.addresses = w.addresses, !.index = w.index,
                                   !.cursor = 0, !.started = TRUE],
                  err |-> "none"]

\* A pool that replenishes only once the window is used up.
NeedsReplenishLate(a) ==
    a.cursor = Len(a.addresses) \/ Len(a.addresses) = 0

\* The condition under which GetNewAddress replenishes the pool.
NeedsReplenish(a) ==
    a.cursor = Len(a.addresses) - 1 \/ Len(a.addresses) = 0

\* A replenishment that puts the derived addresses in front.
ReplenishedInFront(addresses, addrs) ==
    [i \in 1..Len(addrs) |-> EncodeAddress(addrs[i])] \o addresses

\* The window after the derived addresses were appended.
Replenished(addresses, addrs) ==
    addresses \o [i \in 1..Len(addrs) |-> EncodeAddress(addrs[i])]

\* A GetNewAddress that does not look at the started flag.
NotStartedIgnored(a) == FALSE

\* Whether GetNewAddress refuses the call.
NotStarted(a) == ~a.started

\* GetNewAddress: the pool and the manager after the call, the address and
\* the error returned, and whether the pool asked for more addresses
\* ("none", "ok", "failed").  nextFails: the manager fails to derive;
\* notifyFails: chainSvr.NotifyReceived fails.
GetNewAddress(a, mgr, nextFails, notifyFails) ==
    IF NotStarted(a)
    THEN [a |-> a, mgr |-> mgr, addr |-> Nil, err |-> "not started", repl |-> "none"]
    ELSE IF NeedsReplenish(a) /\ a.branch \notin Branches
    THEN [a |-> a, mgr |-> mgr, addr |-> Nil, err |-> "unknown branch", repl |-> "none"]
    ELSE IF NeedsReplenish(a) /\ nextFails
    THEN [a |-> a, mgr |-> mgr, addr |-> Nil, err |-> "derivation", repl |-> "failed"]
    ELSE
    LET repl == NeedsReplenish(a)
        a1 == IF repl
              THEN [a EXCEPT !.addresses =
                       Replenished(@, NextAddresses(mgr, a.branch, addressPoolBuffer))]
              ELSE a
        mgr1 == IF repl THEN AfterNextAddresses(mgr, a.branch, addressPoolBuffer)
                ELSE mgr
    IN  IF a1.cursor >= Len(a1.addresses)
        THEN \* index out of range: the process panics
             [a |-> a1, mgr |-> mgr1, addr |-> Nil, err |-> "panic",
              repl |-> IF repl THEN "ok" ELSE "none"]
        ELSE
        LET curAddress == DecodeAddress(a1.addresses[a1.cursor + 1])
            a2 == [a1 EXCEPT !.cursor = @ + 1, !.index = @ + 1]
        IN  [a |-> a2, mgr |-> mgr1,
             addr |-> IF notifyFails THEN Nil ELSE curAddress,
             err |-> IF notifyFails THEN "notify" ELSE "none",
             repl |-> IF repl THEN "ok" ELSE "none"]

\* A BatchFinish that keeps the consumed addresses in the window.
DropConsumedKept(a) == a.addresses

\* The window BatchFinish keeps.
DropConsumed(a) == SubSeq(a.addresses, a.cursor + 1, Len(a.addresses))

\* A BatchFinish that gives up when a manager call fails.
FinishAbortsOnError(failed) == failed

\* Whether BatchFinish returns when GetAddress or StoreNextToUseAddresses
\* fails: it logs the error and goes on.
FinishAborts(failed) == FALSE

\* BatchFinish: the pool and the manager after the call, and the error the
\* caller sees.  getFails: GetAddress fails (addr stays nil); storeFails:
\* StoreNextToUseAddresses fails.
BatchFinish(a, mgr, getFails, storeFails) ==
    IF a.cursor >= Len(a.addresses)
    THEN [a |-> [a EXCEPT !.addresses = <<>>, !.cursor = 0], mgr |-> mgr,
          err |-> "none"]
    ELSE IF FinishAborts(getFails \/ storeFails)
    THEN [a |-> a, mgr |-> mgr, err |-> "manager"]
    ELSE
    LET addr == IF getFails THEN Nil ELSE GetAddress(a.index + 1, a.branch)
        mgr1 == IF storeFails THEN mgr
                ELSE IF a.branch = ExternalBranch
                THEN StoreNextToUseAddresses(mgr, addr, Nil)
                ELSE IF a.branch = InternalBranch
                THEN StoreNextToUseAddresses(mgr, Nil, addr)
                ELSE mgr
    IN  [a |-> [a EXCEPT !.addresses = DropConsumed(a), !.cursor = 0],
         mgr |-> mgr1, err |-> "none"]

\* uint32 subtraction.  A result below zero stands for the wrapped value
\* 2^32 + (x - y).
Uint32Sub(x, y) == x - y

\* A BatchRollback that leaves the cursor where it was.
BatchRollbackKeepsCursor(a) ==
    [a EXCEPT !.index = Uint32Sub(@, a.cursor)]

\* BatchRollback: the pool after the call.
BatchRollback(a) ==
    [a EXCEPT !.index = Uint32Sub(@, a.cursor), !.cursor = 0]

\* A CloseAddressPools that stores the external address only.
CloseStoredExternalOnly(nextExtAddr, nextIntAddr) == <<nextExtAddr, Nil>>

\* The arguments of the StoreNextToUseAddresses call of CloseAddressPools.
CloseStored(nextExtAddr, nextIntAddr) == <<nextExtAddr, nextIntAddr>>

\* The failures a CloseAddressPools call can meet: deriving addresses or
\* NotifyReceived in one of its two GetNewAddress calls, or storing.
CloseFaults == {"none", "extNext", "extNotify", "intNext", "intNotify", "store"}

\* CloseAddressPools once both mutexes are locked: the two pools and the
\* manager after the call, and the error it logged.  ext is the result of
\* w.externalPool.GetNewAddress() and int the result of
\* w.internalPool.GetNewAddress(), which is called if the first call
\* succeeded.
CloseAddressPools(internalPool, ext, int, storeFails) ==
    IF ext.err # "none"
    THEN [externalPool |-> ext.a, internalPool |-> internalPool,
          mgr |-> ext.mgr, err |-> ext.err, repl |-> {ext.repl}]
    ELSE IF int.err # "none"
    THEN [externalPool |-> ext.a, internalPool |-> int.a,
          mgr |-> int.mgr, err |-> int.err, repl |-> {ext.repl, int.repl}]
    ELSE
    LET stored == CloseStored(ext.addr, int.addr)
    IN  [externalPool |-> ext.a, internalPool |-> int.a,
         mgr |-> IF storeFails THEN int.mgr
                 ELSE StoreNextToUseAddresses(int.mgr, stored[1], stored[2]),
         err |-> IF storeFails THEN "store" ELSE "none",
         repl |-> {ext.repl, int.repl}]

\* A CloseAddressPools that locks the external mutex first.
CloseLockOrderReversed == <<"externalPool", "internalPool">>

\* The order in which CloseAddressPools locks the mutexes of the pools.
CloseLockOrder == <<"internalPool", "externalPool">>

\* A CloseAddressPools that leaves the mutexes locked.
DeferredUnlockMissing == Locked

\* The mutex of a pool after the deferred Unlock of CloseAddressPools.
DeferredUnlock == Unlocked

(***************************************************************************)
(* State.                                                                  *)
(*   pools        the two addressPool objects of the Wallet                *)
(*   Manager      the address manager's persisted state                    *)
(*   addressReuse w.addressReuse                                           *)
(*   opened       the pools this run of the wallet opens                   *)
(*   active       the pools the callers of this run take addresses from;   *)
(*                the two pools share nothing but the manager, whose state *)
(*                is kept per branch                                       *)
(*   restarts, faults, calls, batched   counters of the bounds: restarts   *)
(*                and faults so far, advancing GetNewAddress calls of the  *)
(*                session per pool, whether the session had a batch        *)
(* History, for stating properties:                                        *)
(*   last         the last call: its name, pool, caller, result, whether   *)
(*                the pool was started before it, the fault it met, the    *)
(*                on-chain history it was given, the cursor it consumed    *)
(*   outstanding  addresses returned since the pool's last BatchFinish or  *)
(*                BatchRollback                                            *)
(*   batch        results of the GetNewAddress calls of the open batch, in *)
(*                order (one Nil for a run of failed calls)                *)
(*   issued       addresses returned in this session by a call that was    *)
(*                not rolled back with its own batch                       *)
(*   committed    addresses that were outstanding at a BatchFinish         *)
(*   reissue      addresses of the last rolled back batch that the next    *)
(*                calls are expected to return, in order                   *)
(*   streak       GetNewAddress calls since a fresh initialization, with   *)
(*                no error, BatchFinish or BatchRollback since (-1: none)  *)
(*   past         what outlives a restart, kept in the runs that set its   *)
(*                recording flag: returned, the addresses a                *)
(*                GetNewAddress of any session returned; finished, the     *)
(*                addresses returned by a batch that ended with            *)
(*                BatchFinish; handed, the addresses the session before    *)
(*                the last restart handed to a caller; closed, whether     *)
(*                that session ended with a CloseAddressPools that stored  *)
(*                its addresses                                            *)
(* Threads of the Wallet methods:                                          *)
(*   pc           where each of the calls GetNewAddressExternal,           *)
(*                GetNewAddressInternal and CloseAddressPools stands       *)
(*   holder       who locked the mutex of each pool                        *)
(***************************************************************************)
VARIABLES pools, Manager, addressReuse, active, restarts, faults, calls,
          batched, last, outstanding, batch, issued, committed, reissue, streak,
          past, pc, holder, opened

vars == <<pools, Manager, addressReuse, active, restarts, faults, calls,
          batched, last, outstanding, batch, issued, committed, reissue, streak,
          past, pc, holder, opened>>

\* The calls of the Wallet methods that lock a pool.
Threads == {"GetNewAddressExternal", "GetNewAddressInternal", "CloseAddressPools"}

\* The pool a GetNewAddressExternal / GetNewAddressInternal call locks.
ThreadOf(p) ==
    IF p = "externalPool" THEN "GetNewAddressExternal" ELSE "GetNewAddressInternal"

\* Whether the run explores the collaborator failures of initialize,
\* GetNewAddress and BatchFinish: the runs that open one pool do; the runs
\* that open both explore the failures of CloseAddressPools.
FaultsExplored == opened # Pools

\* The value of a history variable after a step: the runs whose callers use
\* both pools keep no history but last and past.
Kept(old, new) == IF active = Pools THEN old ELSE new

\* Whether the run records what outlives a restart.
Recording == past.recording

\* The GetNewAddress calls on pool p that calls under way are still to make.
Reserved(p) ==
    (IF pc[ThreadOf(p)] # "idle" THEN 1 ELSE 0)
      + (IF pc["CloseAddressPools"] # "idle" THEN 1 ELSE 0)

Range(s) == {s[i] : i \in 1..Len(s)}

NoCall == [op |-> "none", pool |-> "none", caller |-> "none", err |-> "none",
           addr |-> Nil, repl |-> "none", started0 |-> FALSE, fault |-> "none",
           used |-> {}, consumed |-> 0]

\* The wallet before its pools are initialized.
InitWallet ==
    /\ pools = [p \in Pools |-> NewAddressPool]
    /\ \E first \in {0, 1} :
          Manager = [first |-> first,
                     nextIndex |-> [b \in Branches |-> first],
                     nextToUse |-> [b \in Branches |-> Nil]]
    /\ addressReuse \in BOOLEAN
    /\ restarts = 0
    /\ faults = 0
    /\ calls = [p \in Pools |-> 0]
    /\ batched = [p \in Pools |-> FALSE]
    /\ last = NoCall
    /\ outstanding = [p \in Pools |-> {}]
    /\ batch = [p \in Pools |-> <<>>]
    /\ issued = [p \in Pools |-> {}]
    /\ committed = [p \in Pools |-> {}]
    /\ reissue = [p \in Pools |-> <<>>]
    /\ streak = [p \in Pools |-> -1]
    /\ past \in [returned : {[p \in Pools |-> {}]},
                finished : {[p \in Pools |-> {}]},
                handed : {[p \in Pools |-> {}]},
                closed : {FALSE}, recording : BOOLEAN]
    /\ pc = [t \in Threads |-> "idle"]
    /\ holder = [p \in Pools |-> "none"]

\* A run that opens and uses one of the two pools.
Init ==
    /\ InitWallet
    /\ active \in {{p} : p \in Pools}
    /\ opened = active
    /\ ~past.recording

\* A run that opens both pools, whose callers use both, with address reuse
\* disabled.
InitPair ==
    /\ InitWallet
    /\ ~addressReuse
    /\ opened = Pools
    /\ active = Pools
    /\ ~past.recording

\* A run that opens both pools, whose callers use one of them, with address
\* reuse disabled, and that records what outlives a restart.
InitClose ==
    /\ InitWallet
    /\ ~addressReuse
    /\ opened = Pools
    /\ active \in {{p} : p \in Pools}
    /\ past.recording

\* The derivation indexes the walk of initialize can visit.
WalkRange(mgr, br) ==
    IF br \in Branches /\ LastAddress(mgr, br).found
    THEN Max(1, LastAddress(mgr, br).index - addressPoolBuffer + 1)
            .. LastAddress(mgr, br).index
    ELSE {}

\* The indexes of the walk that the inputs of initialize name.
WalkInputs(mgr, br) ==
    {k \in WalkRange(mgr, br) : k >= LastAddress(mgr, br).index - MaxDepth}

\* The on-chain histories an initialize call can meet: none, one address of
\* the walk, or every address up to one of the walk.
UsedSets(mgr, br) ==
    {{}} \cup {{k} : k \in WalkInputs(mgr, br)}
         \cup {0..k : k \in WalkInputs(mgr, br)}

\* The faults an initialize call can meet.
InitFaults(mgr, br, reuse) ==
    {NoFault, [NoFault EXCEPT !.ntu = TRUE], [NoFault EXCEPT !.last = TRUE]}
      \cup {[NoFault EXCEPT !.getAt = k] : k \in WalkInputs(mgr, br)}
      \cup IF reuse THEN {[NoFault EXCEPT !.chainAt = k] : k \in WalkInputs(mgr, br)}
           ELSE {}

FaultName(fault) ==
    IF fault.ntu THEN "ntu"
    ELSE IF fault.last THEN "last"
    ELSE IF fault.getAt # -1 THEN "get"
    ELSE IF fault.chainAt # -1 THEN "chain"
    ELSE "none"

\* a.initialize(branch, w), called when the wallet opens and again when the
\* RPC client reconnects.  A pool that is not started is initialized on its
\* own branch or, by mistake, on an unknown one, and not while a caller
\* holds its mutex or waits for it.  used is what the chain reports.
DoInitialize(p) ==
    /\ p \in opened
    /\ pools[p].started \/ (pools[p].mutex # Locked /\ pc[ThreadOf(p)] = "idle")
    /\ \E branch \in IF pools[p].started THEN Branches \cup {UnknownBranch}
                     ELSE {PoolBranch(p), UnknownBranch} :
       \E fault \in IF pools[p].started THEN {NoFault}
                    ELSE InitFaults(Manager, branch, addressReuse) :
       \E used \in IF pools[p].started \/ ~addressReuse THEN {{}}
                   ELSE UsedSets(Manager, branch) :
         LET r == initialize(pools[p], branch, Manager, addressReuse, used, fault)
             fresh == ~pools[p].started /\ r.a.started /\ r.a.addresses = <<>>
         IN  /\ fault = NoFault
                  \/ /\ FaultsExplored
                     /\ faults < MaxFaults
                     /\ r.err # "none" \/ fault.last
             /\ pools' = [pools EXCEPT ![p] = r.a]
             /\ faults' = IF fault = NoFault THEN faults ELSE faults + 1
             /\ last' = [NoCall EXCEPT !.op = "initialize", !.pool = p,
                                       !.err = r.err,
                                       !.started0 = pools[p].started,
                                       !.fault = FaultName(fault),
                                       !.used = used]
             /\ outstanding' = Kept(outstanding, IF pools[p].started THEN outstanding
                               ELSE [outstanding EXCEPT ![p] = {}])
             /\ reissue' = Kept(reissue, IF pools[p].started THEN reissue
                           ELSE [reissue EXCEPT ![p] = <<>>])
             /\ streak' = Kept(streak, IF fresh THEN [streak EXCEPT ![p] = 0] ELSE streak)
    /\ UNCHANGED <<Manager, addressReuse, active, opened, restarts, calls, batched,
                   batch, issued, committed, past, pc, holder>>

\* The manager can still derive a buffer of addresses within the bound.
CanDerive(mgr, br) ==
    br \in Branches =>
        mgr.nextIndex[br] - mgr.first < MaxReplenish * addressPoolBuffer

\* One a.GetNewAddress() call on pool p and what it does to the history;
\* inBatch: the call belongs to the batch of the caller that holds the mutex.
CallGetNewAddress(p, caller, inBatch) ==
    \E nextFails \in BOOLEAN, notifyFails \in BOOLEAN :
    \E r \in {GetNewAddress(pools[p], Manager, nextFails, notifyFails)} :
      LET a == pools[p]
          faulty == nextFails \/ notifyFails
          ok == r.err = "none"
      IN  /\ ~(nextFails /\ notifyFails)
          /\ nextFails => r.err = "derivation"
          /\ notifyFails => r.err = "notify"
          /\ faulty => FaultsExplored /\ faults < MaxFaults /\ calls[p] < MaxCalls
          /\ r.repl = "ok" => CanDerive(Manager, a.branch)
          /\ pools' = [pools EXCEPT ![p] = r.a]
          /\ Manager' = r.mgr
          /\ faults' = IF faulty THEN faults + 1 ELSE faults
          /\ calls' = IF r.a.cursor # a.cursor THEN [calls EXCEPT ![p] = @ + 1]
                      ELSE calls
          /\ last' = [NoCall EXCEPT !.op = "GetNewAddress", !.pool = p,
                                    !.caller = caller, !.err = r.err,
                                    !.addr = r.addr, !.repl = r.repl,
                                    !.started0 = a.started,
                                    !.fault = IF nextFails THEN "next"
                                              ELSE IF notifyFails THEN "notify"
                                              ELSE "none"]
          /\ outstanding' = Kept(outstanding, IF ok THEN [outstanding EXCEPT ![p] = @ \cup {r.addr}]
                            ELSE outstanding)
          /\ batch' = Kept(batch, IF inBatch /\ (ok \/ batch[p] = <<>>
                                         \/ batch[p][Len(batch[p])] # Nil)
                      THEN [batch EXCEPT ![p] = Append(@, r.addr)]
                      ELSE batch)
          /\ issued' = Kept(issued, IF ok /\ ~inBatch THEN [issued EXCEPT ![p] = @ \cup {r.addr}]
                       ELSE issued)
          /\ reissue' = Kept(reissue, IF ok /\ reissue[p] # <<>>
                        THEN [reissue EXCEPT ![p] = Tail(@)]
                        ELSE [reissue EXCEPT ![p] = <<>>])
          /\ streak' = Kept(streak, IF ok /\ streak[p] >= 0
                       THEN [streak EXCEPT ![p] = @ + 1]
                       ELSE [streak EXCEPT ![p] = -1])
          /\ past' = IF ok /\ Recording
                     THEN [past EXCEPT !.returned[p] = @ \cup {r.addr}]
                     ELSE past

\* w.GetNewAddressExternal(): lock, GetNewAddress, unlock.
GetNewAddressExternal ==
    /\ "externalPool" \in active
    /\ pools["externalPool"].mutex = Unlocked
    /\ calls["externalPool"] < MaxCalls \/ ~batched["externalPool"]
    /\ CallGetNewAddress("externalPool", "GetNewAddressExternal", FALSE)
    /\ UNCHANGED <<addressReuse, active, opened, restarts, batched, committed, pc, holder>>

\* w.GetNewAddressInternal(): lock, GetNewAddress, unlock.
GetNewAddressInternal ==
    /\ "internalPool" \in active
    /\ pools["internalPool"].mutex = Unlocked
    /\ calls["internalPool"] < MaxCalls \/ ~batched["internalPool"]
    /\ CallGetNewAddress("internalPool", "GetNewAddressInternal", FALSE)
    /\ UNCHANGED <<addressReuse, active, opened, restarts, batched, committed, pc, holder>>

\* A caller locks the pool's mutex to start a batch.
BatchBegin(p) ==
    /\ p \in active
    /\ pools[p].mutex = Unlocked
    /\ calls[p] < MaxCalls
    /\ pools' = [pools EXCEPT ![p].mutex = Locked]
    /\ holder' = [holder EXCEPT ![p] = "batch"]
    /\ batched' = Kept(batched, [batched EXCEPT ![p] = TRUE])
    /\ batch' = Kept(batch, [batch EXCEPT ![p] = <<>>])
    /\ last' = [NoCall EXCEPT !.op = "BatchBegin", !.pool = p,
                              !.started0 = pools[p].started]
    /\ UNCHANGED <<Manager, addressReuse, active, opened, restarts, faults, calls,
                   outstanding, issued, committed, reissue, streak, past, pc>>

\* The caller that holds the mutex takes one more address.
BatchGetNewAddress(p) ==
    /\ p \in active
    /\ pools[p].mutex = Locked /\ holder[p] = "batch"
    /\ calls[p] + Reserved(p) < MaxCalls
    /\ CallGetNewAddress(p, "batch", TRUE)
    /\ UNCHANGED <<addressReuse, active, opened, restarts, batched, committed, pc, holder>>

\* The caller that holds the mutex finishes its batch: a.BatchFinish(), then
\* unlock.
DoBatchFinish(p) ==
    /\ p \in active
    /\ pools[p].mutex = Locked /\ holder[p] = "batch"
    /\ \E getFails \in BOOLEAN, storeFails \in BOOLEAN :
         LET a == pools[p]
             r == BatchFinish(a, Manager, getFails, storeFails)
             faulty == getFails \/ storeFails
         IN  /\ ~(getFails /\ storeFails)
             /\ faulty => /\ FaultsExplored
                          /\ faults < MaxFaults
                          /\ a.cursor < Len(a.addresses)
                          /\ a.branch \in Branches
             /\ pools' = [pools EXCEPT ![p] = [r.a EXCEPT !.mutex = Unlocked]]
             /\ Manager' = r.mgr
             /\ faults' = IF faulty THEN faults + 1 ELSE faults
             /\ last' = [NoCall EXCEPT !.op = "BatchFinish", !.pool = p,
                                       !.caller = "batch", !.err = r.err,
                                       !.started0 = a.started,
                                       !.consumed = a.cursor,
                                       !.fault = IF getFails THEN "get"
                                                 ELSE IF storeFails THEN "store"
                                                 ELSE "none"]
    /\ committed' = Kept(committed, [committed EXCEPT ![p] = @ \cup outstanding[p]])
    /\ issued' = Kept(issued, [issued EXCEPT ![p] = @ \cup (Range(batch[p]) \ {Nil})])
    /\ outstanding' = Kept(outstanding, [outstanding EXCEPT ![p] = {}])
    /\ batch' = Kept(batch, [batch EXCEPT ![p] = <<>>])
    /\ reissue' = Kept(reissue, [reissue EXCEPT ![p] = <<>>])
    /\ streak' = Kept(streak, IF streak[p] = 0 THEN streak ELSE [streak EXCEPT ![p] = -1])
    /\ past' = IF Recording
               THEN [past EXCEPT !.finished[p] = @ \cup (Range(batch[p]) \ {Nil})]
               ELSE past
    /\ holder' = [holder EXCEPT ![p] = "none"]
    /\ UNCHANGED <<addressReuse, active, opened, restarts, calls, batched, pc>>

\* The caller that holds the mutex gives up its batch: a.BatchRollback(),
\* then unlock.
DoBatchRollback(p) ==
    /\ p \in active
    /\ pools[p].mutex = Locked /\ holder[p] = "batch"
    /\ pools' = [pools EXCEPT ![p] = [BatchRollback(pools[p]) EXCEPT !.mutex = Unlocked]]
    /\ last' = [NoCall EXCEPT !.op = "BatchRollback", !.pool = p,
                              !.caller = "batch",
                              !.started0 = pools[p].started]
    /\ outstanding' = Kept(outstanding, [outstanding EXCEPT ![p] = {}])
    /\ reissue' = Kept(reissue, [reissue EXCEPT ![p] =
                      IF Nil \in Range(batch[p]) THEN <<>> ELSE batch[p]])
    /\ batch' = Kept(batch, [batch EXCEPT ![p] = <<>>])
    /\ streak' = Kept(streak, IF streak[p] = 0 THEN streak ELSE [streak EXCEPT ![p] = -1])
    /\ holder' = [holder EXCEPT ![p] = "none"]
    /\ UNCHANGED <<Manager, addressReuse, active, opened, restarts, faults, calls,
                   batched, issued, committed, past, pc>>

\* The process ends, with or without a CloseAddressPools before, and the
\* wallet is opened again: the pools are new, the manager's database is what
\* it was.
Restart ==
    /\ restarts < MaxRestarts
    /\ restarts' = restarts + 1
    /\ pools' = [p \in Pools |-> NewAddressPool]
    /\ calls' = [p \in Pools |-> 0]
    /\ batched' = [p \in Pools |-> FALSE]
    /\ last' = [NoCall EXCEPT !.op = "Restart"]
    /\ outstanding' = [p \in Pools |-> {}]
    /\ batch' = [p \in Pools |-> <<>>]
    /\ issued' = [p \in Pools |-> {}]
    /\ committed' = [p \in Pools |-> {}]
    /\ reissue' = [p \in Pools |-> <<>>]
    /\ streak' = [p \in Pools |-> -1]
    /\ past' = IF Recording
               THEN [past EXCEPT !.handed = issued,
                                 !.closed = (last.op = "CloseAddressPools"
                                               /\ last.err = "none")]
               ELSE past
    /\ pc' = [t \in Threads |-> "idle"]
    /\ holder' = [p \in Pools |-> "none"]
    /\ UNCHANGED <<Manager, addressReuse, active, opened, faults>>

\* A thread calls w.GetNewAddressExternal() or w.GetNewAddressInternal() and
\* reaches mutex.Lock().
WalletGetNewAddressCall(p) ==
    /\ p \in active
    /\ pc[ThreadOf(p)] = "idle"
    /\ pools[p].mutex # NilMutex
    /\ calls[p] + Reserved(p) < MaxCalls
    /\ pc' = [pc EXCEPT ![ThreadOf(p)] = "Lock"]
    /\ UNCHANGED <<pools, Manager, addressReuse, active, opened, restarts, faults,
                   calls, batched, last, outstanding, batch, issued, committed,
                   reissue, streak, past, holder>>

\* The thread gets the mutex, runs GetNewAddress, unlocks and returns.
WalletGetNewAddressRun(p) ==
    /\ p \in active
    /\ pc[ThreadOf(p)] = "Lock"
    /\ pools[p].mutex = Unlocked
    /\ CallGetNewAddress(p, ThreadOf(p), FALSE)
    /\ pc' = [pc EXCEPT ![ThreadOf(p)] = "idle"]
    /\ UNCHANGED <<addressReuse, active, opened, restarts, batched, committed, holder>>

\* A thread calls w.CloseAddressPools(): it returns at once unless both pools
\* are started, and reaches the first mutex.Lock() otherwise.
CloseAddressPoolsCall ==
    /\ opened = Pools
    /\ pc["CloseAddressPools"] = "idle"
    /\ \A p \in Pools : calls[p] + Reserved(p) < MaxCalls
    /\ LET ready == /\ pools["internalPool"].started
                    /\ pools["externalPool"].started
                    /\ pools["internalPool"].mutex # NilMutex
                    /\ pools["externalPool"].mutex # NilMutex
       IN  /\ pc' = [pc EXCEPT !["CloseAddressPools"] =
                         IF ready THEN "LockFirst" ELSE "idle"]
           /\ last' = IF ready THEN last
                      ELSE [NoCall EXCEPT !.op = "CloseAddressPools",
                                          !.caller = "CloseAddressPools",
                                          !.err = "not started"]
    /\ UNCHANGED <<pools, Manager, addressReuse, active, opened, restarts, faults, calls,
                   batched, outstanding, batch, issued, committed, reissue,
                   streak, past, holder>>

\* CloseAddressPools locks the mutex at position i of its lock order.
CloseAddressPoolsLock(i, at, then) ==
    LET p == CloseLockOrder[i]
    IN  /\ pc["CloseAddressPools"] = at
        /\ pools[p].mutex = Unlocked
        /\ pools' = [pools EXCEPT ![p].mutex = Locked]
        /\ holder' = [holder EXCEPT ![p] = "CloseAddressPools"]
        /\ pc' = [pc EXCEPT !["CloseAddressPools"] = then]
        /\ UNCHANGED <<Manager, addressReuse, active, opened, restarts, faults,
                       calls, batched, last, outstanding, batch, issued,
                       committed, reissue, streak, past>>

\* w.internalPool.mutex.Lock()
CloseAddressPoolsLockFirst == CloseAddressPoolsLock(1, "LockFirst", "LockSecond")

\* w.externalPool.mutex.Lock()
CloseAddressPoolsLockSecond == CloseAddressPoolsLock(2, "LockSecond", "Locked")

\* CloseAddressPools with both mutexes locked: one GetNewAddress per pool,
\* StoreNextToUseAddresses, the deferred unlocks.
CloseAddressPoolsLocked ==
    /\ pc["CloseAddressPools"] = "Locked"
    /\ \E fault \in CloseFaults :
       \E ext \in {GetNewAddress(pools["externalPool"], Manager,
                                  fault = "extNext", fault = "extNotify")} :
       \E int \in {GetNewAddress(pools["internalPool"], ext.mgr,
                                  fault = "intNext", fault = "intNotify")} :
       \E r \in {CloseAddressPools(pools["internalPool"], ext, int,
                                   fault = "store")} :
       \E after \in {[p \in Pools |-> IF p = "externalPool" THEN r.externalPool
                                       ELSE r.internalPool]} :
         LET got == {DecodeAddress(after[p].addresses[pools[p].cursor + 1]) :
                       p \in {q \in Pools : after[q].cursor # pools[q].cursor}}
         IN  /\ fault # "none" => faults < MaxFaults
             /\ fault \in {"extNext", "intNext"} => r.err = "derivation"
             /\ fault \in {"extNotify", "intNotify"} => r.err = "notify"
             /\ fault = "store" => r.err = "store"
             /\ "ok" \in r.repl =>
                    \A p \in Pools : CanDerive(Manager, pools[p].branch)
             /\ pools' = [p \in Pools |-> [after[p] EXCEPT !.mutex = DeferredUnlock]]
             /\ Manager' = r.mgr
             /\ faults' = IF fault = "none" THEN faults ELSE faults + 1
             /\ calls' = [p \in Pools |->
                             IF after[p].cursor # pools[p].cursor
                             THEN calls[p] + 1 ELSE calls[p]]
             /\ last' = [NoCall EXCEPT !.op = "CloseAddressPools",
                                       !.caller = "CloseAddressPools",
                                       !.err = r.err, !.started0 = TRUE,
                                       !.fault = fault]
             /\ past' = IF Recording
                        THEN [past EXCEPT !.returned =
                                [p \in Pools |->
                                   @[p] \cup {a \in got : a[1] = pools[p].branch}]]
                        ELSE past
    /\ holder' = [p \in Pools |-> "none"]
    /\ pc' = [pc EXCEPT !["CloseAddressPools"] = "idle"]
    /\ reissue' = [p \in Pools |-> <<>>]
    /\ streak' = [p \in Pools |-> -1]
    /\ UNCHANGED <<addressReuse, active, opened, restarts, batched, outstanding, batch,
                   issued, committed>>

Next ==
    \/ \E p \in Pools : DoInitialize(p)
    \/ GetNewAddressExternal
    \/ GetNewAddressInternal
    \/ \E p \in Pools : BatchBegin(p)
    \/ \E p \in Pools : BatchGetNewAddress(p)
    \/ \E p \in Pools : DoBatchFinish(p)
    \/ \E p \in Pools : DoBatchRollback(p)
    \/ Restart

Spec == Init /\ [][Next]_vars

\* The wallet with both pools and the threads of its callers.
NextPair ==
    \/ \E p \in Pools : DoInitialize(p)
    \/ \E p \in Pools : WalletGetNewAddressCall(p)
    \/ \E p \in Pools : WalletGetNewAddressRun(p)
    \/ \E p \in Pools : BatchBegin(p)
    \/ \E p \in Pools : BatchGetNewAddress(p)
    \/ \E p \in Pools : DoBatchFinish(p)
    \/ \E p \in Pools : DoBatchRollback(p)
    \/ CloseAddressPoolsCall
    \/ CloseAddressPoolsLockFirst
    \/ CloseAddressPoolsLockSecond
    \/ CloseAddressPoolsLocked

SpecPair == InitPair /\ [][NextPair]_vars

\* The wallet with both pools over several sessions.
NextClose ==
    \/ NextPair
    \/ Restart

SpecClose == InitClose /\ [][NextClose]_vars

\* sync.Mutex hands a released mutex to a waiting Lock call, a call that holds
\* the mutexes it needs runs on, and the caller of a batch ends it with
\* BatchFinish or BatchRollback.
Fairness ==
    /\ \A p \in Pools : SF_vars(WalletGetNewAddressRun(p))
    /\ SF_vars(CloseAddressPoolsLockFirst)
    /\ SF_vars(CloseAddressPoolsLockSecond)
    /\ WF_vars(CloseAddressPoolsLocked)
    /\ \A p \in Pools : WF_vars(DoBatchFinish(p) \/ DoBatchRollback(p))

\* The locking of the three calls does not depend on how the manager numbers
\* the addresses: the fair runs start with the first index 0.
InitFair == InitPair /\ Manager.first = 0

FairSpecPair == InitFair /\ [][NextPair]_vars /\ Fairness

(***************************************************************************)
(* Properties.                                                             *)
(***************************************************************************)
\* The step is a GetNewAddress call on pool p.
IsGet(p) == last'.op = "GetNewAddress" /\ last'.pool = p

\* The step is a GetNewAddress call on pool p that returned an address.
IsGetOk(p) == IsGet(p) /\ last'.err = "none"

\* C1: with address reuse disabled, within one session, no address is
\* returned by two successful GetNewAddress calls on a pool, unless the batch
\* that first returned it was rolled back.
C1_NoAddressReturnedTwice ==
    [][\A p \in Pools :
          (~addressReuse /\ IsGetOk(p))
             => last'.addr \notin (issued[p] \cup Range(batch[p]))]_vars

\* C2: with address reuse disabled, a BatchFinish that follows one or more
\* successful GetNewAddress calls on a started pool leaves cursor = 0, and no
\* address that was outstanding at a BatchFinish is returned by a later
\* GetNewAddress.
C2_CommitConsumes ==
    [][\A p \in Pools :
          ~addressReuse =>
             /\ (last'.op = "BatchFinish" /\ last'.pool = p
                   /\ pools[p].started /\ outstanding[p] # {})
                  => pools'[p].cursor = 0
             /\ IsGetOk(p) => last'.addr \notin committed[p]]_vars

\* C2 witness: an address was returned after a BatchFinish that consumed
\* addresses.
C2_Witness ==
    /\ ~addressReuse
    /\ last.op = "GetNewAddress" /\ last.err = "none"
    /\ committed[last.pool] # {}

\* C3: after a batch of n >= 1 successful GetNewAddress calls, BatchRollback
\* leaves index exactly n lower and cursor = 0, the n addresses are still in
\* the window, and the next n calls return them in the same order.
C3_RollbackReissues ==
    [][\A p \in Pools :
          /\ (last'.op = "BatchRollback" /\ last'.pool = p /\ pools[p].started
                /\ batch[p] # <<>> /\ Nil \notin Range(batch[p]))
               => /\ pools'[p].index = pools[p].index - Len(batch[p])
                  /\ pools'[p].cursor = 0
                  /\ \A i \in 1..Len(batch[p]) :
                        EncodeAddress(batch[p][i]) \in Range(pools'[p].addresses)
          /\ (IsGetOk(p) /\ reissue[p] # <<>>)
               => last'.addr = Head(reissue[p])]_vars

\* C4: a GetNewAddress call that returns an error leaves the window, the
\* cursor and the index of the pool as they were.
C4_FailureKeepsState ==
    [][\A p \in Pools :
          (IsGet(p) /\ last'.err # "none")
             => /\ pools'[p].addresses = pools[p].addresses
                /\ pools'[p].cursor = pools[p].cursor
                /\ pools'[p].index = pools[p].index]_vars

\* C5: GetNewAddress on a started pool asks for more addresses exactly when
\* cursor = len(addresses)-1 or the window is empty, and a replenishment that
\* succeeds appends exactly addressPoolBuffer addresses after the unchanged
\* old window.
C5_ReplenishTrigger ==
    [][\A p \in Pools :
          (IsGet(p) /\ pools[p].started)
             => /\ (last'.repl # "none")
                      <=> (\/ pools[p].cursor = Len(pools[p].addresses) - 1
                           \/ Len(pools[p].addresses) = 0)
                /\ last'.repl = "ok"
                      => /\ Len(pools'[p].addresses)
                               = Len(pools[p].addresses) + addressPoolBuffer
                         /\ SubSeq(pools'[p].addresses, 1, Len(pools[p].addresses))
                               = pools[p].addresses
                /\ last'.repl # "ok"
                      => pools'[p].addresses = pools[p].addresses]_vars

\* C5 witness: a replenishment was appended to a window that still held an
\* address.
C5_Witness ==
    /\ last.op = "GetNewAddress" /\ last.repl = "ok"
    /\ Len(pools[last.pool].addresses) > addressPoolBuffer

\* C6 as stated: in a run of GetNewAddress calls on a freshly initialized
\* pool, with no BatchFinish or BatchRollback, the first replenishment after
\* the initial one fires on the 21st call; it raises no error and appends
\* addressPoolBuffer addresses.
C6_Replenish21st ==
    [][\A p \in Pools :
          (IsGet(p) /\ streak[p] >= 1
             /\ Len(pools[p].addresses) = addressPoolBuffer)
             => /\ (last'.repl # "none") <=> (streak[p] + 1 = 21)
                /\ (last'.repl # "none" /\ last'.fault = "none")
                      => /\ last'.err = "none"
                         /\ Len(pools'[p].addresses) = 2 * addressPoolBuffer]_vars

\* C6 amended: in such a run the first replenishment after the initial one
\* fires on the 20th call, when one unconsumed address is left; it raises no
\* error and appends addressPoolBuffer addresses.
C6_Replenish20th ==
    [][\A p \in Pools :
          (IsGet(p) /\ streak[p] >= 1
             /\ Len(pools[p].addresses) = addressPoolBuffer)
             => /\ (last'.repl # "none") <=> (streak[p] + 1 = 20)
                /\ (last'.repl # "none" /\ last'.fault = "none")
                      => /\ last'.err = "none"
                         /\ Len(pools'[p].addresses) = 2 * addressPoolBuffer]_vars

\* C6 witness: the 20th call of such a run replenished the pool.
C6_Witness ==
    /\ last.op = "GetNewAddress" /\ last.repl = "ok" /\ last.err = "none"
    /\ streak[last.pool] = 20
    /\ Len(pools[last.pool].addresses) = 2 * addressPoolBuffer

\* C7: GetNewAddress on a pool that is not started fails with the not started
\* error, returns no address and changes nothing.
C7_NotStartedRefuses ==
    [][\A p \in Pools :
          (IsGet(p) /\ ~pools[p].started)
             => /\ last'.err = "not started"
                /\ last'.addr = Nil
                /\ pools'[p] = pools[p]
                /\ Manager' = Manager]_vars

\* C7 witness: GetNewAddress was called on a pool whose initialize failed.
C7_Witness ==
    /\ last.op = "GetNewAddress" /\ ~last.started0
    /\ pools[last.pool].mutex # NilMutex

\* C8: initialize on a started pool succeeds and leaves the window, cursor,
\* index, branch and mutex of the pool, and the manager, unchanged, whatever
\* the branch argument.
C8_InitializeIdempotent ==
    [][\A p \in Pools :
          (last'.op = "initialize" /\ last'.pool = p /\ pools[p].started)
             => /\ last'.err = "none"
                /\ pools'[p] = pools[p]
                /\ Manager' = Manager]_vars

\* C8 witness: initialize was called on a started pool in the middle of a
\* batch.
C8_Witness ==
    /\ last.op = "initialize" /\ last.started0
    /\ pools[last.pool].mutex = Locked
    /\ pools[last.pool].cursor > 0

\* C9: initialize on an account with no managed address of the branch leaves
\* index = 0, cursor = 0, an empty window and started = TRUE, and the first
\* GetNewAddress afterwards replenishes the pool.
C9_FreshInitialize ==
    [][\A p \in Pools :
          /\ (last'.op = "initialize" /\ last'.pool = p /\ ~pools[p].started
                /\ last'.err = "none" /\ last'.fault = "none"
                /\ ~LastAddress(Manager, pools'[p].branch).found)
               => /\ pools'[p].index = 0
                  /\ pools'[p].cursor = 0
                  /\ pools'[p].addresses = <<>>
                  /\ pools'[p].started
                  /\ streak'[p] = 0
          /\ (IsGet(p) /\ streak[p] = 0) => last'.repl # "none"]_vars

\* C9 witness: the first GetNewAddress after the initialize of a fresh
\* account returned the first address of the branch.
C9_Witness ==
    /\ last.op = "GetNewAddress" /\ last.repl = "ok" /\ last.err = "none"
    /\ streak[last.pool] = 1
    /\ pools[last.pool].index = 1
    /\ last.addr = GetAddress(Manager.first, pools[last.pool].branch)

\* The state follows an initialize, with address reuse disabled and no
\* collaborator failure, of a pool whose stored next to use address is one of
\* the addresses the walk visits.
AfterMatchingInitialize ==
    /\ last.op = "initialize" /\ ~last.started0
    /\ last.err = "none" /\ last.fault = "none"
    /\ ~addressReuse
    /\ LET br == pools[last.pool].branch
           saved == Manager.nextToUse[br]
       IN  /\ saved # Nil
           /\ saved[1] = br
           /\ saved[2] \in WalkRange(Manager, br)

\* C10 as stated: after such an initialize the window holds exactly the
\* addresses with a derivation index strictly greater than the match, up to
\* the last derived index, in ascending order.
C10_WindowAboveMatch ==
    AfterMatchingInitialize =>
        LET br == pools[last.pool].branch
            m == Manager.nextToUse[br][2]
            top == LastAddress(Manager, br).index
        IN  pools[last.pool].addresses =
               [i \in 1..(top - m) |-> EncodeAddress(GetAddress(m + i, br))]

\* C10 amended: after such an initialize the window holds exactly the
\* addresses from the match itself up to the last derived index, in
\* ascending order, and the walk stopped at the match.
C10_WindowFromMatch ==
    AfterMatchingInitialize =>
        LET br == pools[last.pool].branch
            m == Manager.nextToUse[br][2]
            top == LastAddress(Manager, br).index
        IN  /\ pools[last.pool].addresses =
                  [i \in 1..(top - m + 1) |-> EncodeAddress(GetAddress(m + i - 1, br))]
            /\ pools[last.pool].index = m

\* C10 witness: an initialize matched a stored address below the last
\* derived index.
C10_Witness ==
    /\ AfterMatchingInitialize
    /\ Len(pools[last.pool].addresses) >= 2

\* The state follows an initialize, with address reuse enabled and no
\* collaborator failure, of a pool whose walk meets an address with on-chain
\* history.
AfterReuseInitialize ==
    /\ last.op = "initialize" /\ ~last.started0
    /\ last.err = "none" /\ last.fault = "none"
    /\ addressReuse
    /\ last.used \cap WalkRange(Manager, pools[last.pool].branch) # {}

\* The highest index of the walk that has on-chain history.
FirstUsed ==
    LET hits == last.used \cap WalkRange(Manager, pools[last.pool].branch)
    IN  CHOOSE h \in hits : \A k \in hits : k <= h

C12_InitializeFailureKeepsUnstarted ==
    [][\A p \in Pools :
          /\ (last'.op = "initialize" /\ last'.pool = p /\ ~pools[p].started
                /\ last'.fault # "none")
               => /\ last'.err # "none"
                  /\ ~pools'[p].started
          /\ (IsGet(p) /\ ~pools[p].started) => last'.err # "none"]_vars

\* The step is a BatchFinish on the started pool p that stores a next to use
\* address: addresses are left in the window and no collaborator fails.
IsStoringFinish(p) ==
    /\ last'.op = "BatchFinish" /\ last'.pool = p /\ last'.fault = "none"
    /\ pools[p].started
    /\ pools[p].cursor < Len(pools[p].addresses)
    /\ pools[p].branch \in Branches

\* C13: whenever BatchFinish stores a next to use address for its branch, the
\* stored address is the first address of the window after the BatchFinish,
\* the one the next GetNewAddress on the pool returns; in every session.
C13_CheckpointIsNextToUse ==
    [][\A p \in Pools :
          IsStoringFinish(p)
             => Manager'.nextToUse[pools[p].branch]
                   = DecodeAddress(pools'[p].addresses[1])]_vars

\* C14: a BatchFinish on a started pool whose GetAddress or
\* StoreNextToUseAddresses call fails still completes: the consumed prefix is
\* dropped from the window, cursor becomes 0, index keeps its value, the
\* caller sees no error, and the stored next to use addresses are as before.
C14_FinishSurvivesFailure ==
    [][\A p \in Pools :
          (last'.op = "BatchFinish" /\ last'.pool = p /\ pools[p].started
             /\ last'.fault \in {"get", "store"})
             => /\ pools'[p].addresses
                      = SubSeq(pools[p].addresses, pools[p].cursor + 1,
                               Len(pools[p].addresses))
                /\ pools'[p].cursor = 0
                /\ pools'[p].index = pools[p].index
                /\ last'.err = "none"
                /\ Manager'.nextToUse = Manager.nextToUse]_vars

\* C14 witness: a BatchFinish that consumed addresses met a failure after an
\* earlier BatchFinish had stored a next to use address.
C14_Witness ==
    /\ last.op = "BatchFinish" /\ last.fault \in {"get", "store"}
    /\ last.started0 /\ last.consumed >= 1
    /\ Manager.nextToUse[pools[last.pool].branch] # Nil

\* C20: after every GetNewAddress that returns an address, the index of the
\* pool is the derivation index of that address, whichever way the pool was
\* initialized.
C20_IndexIsDerivationIndex ==
    [][\A p \in Pools :
          IsGetOk(p) => pools'[p].index = last'.addr[2]]_vars

\* C17: after a restart that no CloseAddressPools preceded, with address
\* reuse disabled, a GetNewAddress of the new session neither returns an
\* address that a batch ended with BatchFinish returned before, nor returns
\* an address while a lower address of the branch was never returned.
C17_UncleanRestartRecovers ==
    [][\A p \in Pools :
          (IsGetOk(p) /\ ~addressReuse /\ restarts >= 1 /\ ~past.closed)
             => /\ last'.addr \notin past.finished[p]
                /\ \A j \in Manager.first..(last'.addr[2] - 1) :
                      GetAddress(j, pools[p].branch) \in past.returned[p]]_vars

\* The step is the part of CloseAddressPools that runs with both mutexes
\* locked.
IsClose ==
    /\ pc["CloseAddressPools"] = "Locked"
    /\ pc'["CloseAddressPools"] = "idle"

\* C15: a CloseAddressPools on two started pools, once it holds both mutexes
\* and when none of its collaborator calls fails, takes exactly one address
\* from each pool (cursor and index of each pool go up by one) and stores, in
\* one StoreNextToUseAddresses call, exactly these two addresses as the
\* external and the internal next to use address.
C15_CloseBurnsOneEach ==
    [][(IsClose /\ last'.fault = "none")
          => /\ last'.err = "none"
             /\ \A p \in Pools :
                   /\ pools[p].started
                   /\ pools'[p].cursor = pools[p].cursor + 1
                   /\ pools'[p].index = pools[p].index + 1
                   /\ Manager'.nextToUse[PoolBranch(p)]
                         = DecodeAddress(pools'[p].addresses[pools[p].cursor + 1])
                   /\ Manager'.nextToUse[PoolBranch(p)][1] = PoolBranch(p)]_vars

\* C15 witness: a CloseAddressPools stored its two addresses after callers
\* had taken addresses from both pools.
C15_Witness ==
    /\ last.op = "CloseAddressPools" /\ last.err = "none" /\ last.fault = "none"
    /\ \A p \in Pools :
          /\ pools[p].cursor >= 2
          /\ Manager.nextToUse[PoolBranch(p)]
                = DecodeAddress(pools[p].addresses[pools[p].cursor])

\* C16: in a session that follows a CloseAddressPools that stored its
\* addresses and a restart, with address reuse disabled, GetNewAddress
\* returns no address that the session before handed to a caller (through
\* GetNewAddressExternal / GetNewAddressInternal or a batch that was not
\* rolled back).
C16_NoReissueAfterClose ==
    [][\A p \in Pools :
          (IsGetOk(p) /\ ~addressReuse /\ restarts >= 1 /\ past.closed)
             => last'.addr \notin past.handed[p]]_vars

\* CloseAddressPools takes the mutex of pool p in this step.
CloseLocks(p) ==
    holder'[p] = "CloseAddressPools" /\ holder[p] # "CloseAddressPools"

\* C18 as stated: CloseAddressPools locks the external pool first, then the
\* internal pool.
C18_ExternalThenInternal ==
    [][/\ CloseLocks("externalPool")
            => holder["internalPool"] # "CloseAddressPools"
       /\ CloseLocks("internalPool")
            => holder["externalPool"] = "CloseAddressPools"]_vars

\* C18 amended: CloseAddressPools locks the internal pool first, then the
\* external pool.
C18_InternalThenExternal ==
    [][/\ CloseLocks("internalPool")
            => holder["externalPool"] # "CloseAddressPools"
       /\ CloseLocks("externalPool")
            => holder["internalPool"] = "CloseAddressPools"]_vars

\* C18 witness: CloseAddressPools holds both mutexes.
C18_Witness ==
    \A p \in Pools : holder[p] = "CloseAddressPools" /\ pools[p].mutex = Locked

\* C19: every GetNewAddressExternal, GetNewAddressInternal and
\* CloseAddressPools call that has started returns, whatever the
\* interleaving, when every holder of a mutex releases it: no thread stays
\* inside a call for ever (at every moment each thread is idle or will be).
C19_CallsReturn ==
    \A t \in Threads : []<>(pc[t] = "idle")

\* C19 witness: CloseAddressPools holds the internal mutex and waits for the
\* external one, which a batch holds, while GetNewAddressInternal and
\* GetNewAddressExternal wait.
C19_Witness ==
    /\ pc["CloseAddressPools"] = "LockSecond"
    /\ holder["internalPool"] = "CloseAddressPools"
    /\ holder["externalPool"] = "batch"
    /\ pc["GetNewAddressInternal"] = "Lock"
    /\ pc["GetNewAddressExternal"] = "Lock"

\* The state follows an initialize, with address reuse disabled and no
\* collaborator failure, of a pool whose stored next to use address lies less
\* than addressPoolBuffer indexes below the last derived index of the branch.
AfterInitializeNearCheckpoint ==
    /\ last.op = "initialize" /\ ~last.started0
    /\ last.err = "none" /\ last.fault = "none"
    /\ ~addressReuse
    /\ LET br == pools[last.pool].branch
           saved == Manager.nextToUse[br]
           top == LastAddress(Manager, br)
       IN  /\ br \in Branches
           /\ saved # Nil
           /\ saved[1] = br
           /\ top.found
           /\ top.index - saved[2] \in 0..(addressPoolBuffer - 1)

\* C21: after such an initialize the stored address is the first address of
\* the window, index is the derivation index of the stored address, and the
\* window holds at most addressPoolBuffer addresses.
C21_MatchHeadsWindow ==
    AfterInitializeNearCheckpoint =>
        LET a == pools[last.pool]
            saved == Manager.nextToUse[a.branch]
        IN  /\ Len(a.addresses) >= 1
            /\ a.addresses[1] = EncodeAddress(saved)
            /\ a.index = saved[2]
            /\ a.cursor = 0
            /\ Len(a.addresses) <= addressPoolBuffer

\* A started pool has an empty window and cursor = 0, or an address of the
\* window that no call has consumed.
UnconsumedRemains(a) ==
    \/ Len(a.addresses) = 0 /\ a.cursor = 0
    \/ a.cursor < Len(a.addresses)

\* The step is a BatchFinish on pool p that leaves the window empty.
IsClearingFinish(p) ==
    /\ last'.op = "BatchFinish" /\ last'.pool = p
    /\ pools[p].mutex = Locked /\ pools'[p].mutex = Unlocked
    /\ pools'[p].addresses = <<>>

\* C22: in every reachable state a started pool has an empty window with
\* cursor = 0, or cursor < len(addresses); and a BatchFinish that leaves the
\* window empty found it empty.
C22_UnconsumedRemains ==
    /\ [](\A p \in Pools : pools[p].started => UnconsumedRemains(pools[p]))
    /\ [][\A p \in Pools : IsClearingFinish(p) => pools[p].addresses = <<>>]_vars

\* C22 witness: the twentieth GetNewAddress in a row on a pool that started
\* empty replenished the window before it took the last address of the first
\* twenty.
C22_Witness ==
    /\ last.op = "GetNewAddress" /\ last.err = "none" /\ last.repl = "ok"
    /\ pools[last.pool].started
    /\ pools[last.pool].cursor = addressPoolBuffer
    /\ Len(pools[last.pool].addresses) = 2 * addressPoolBuffer

\* C23: in every reachable state the index of a pool is at least its cursor
\* (and the cursor is not negative), so the subtraction index -= cursor of
\* BatchRollback never goes below zero, whatever calls came before.
C23_IndexCoversCursor ==
    \A p \in Pools :
        /\ pools[p].cursor >= 0
        /\ pools[p].index >= pools[p].cursor

\* C23 witness: a BatchRollback took back the addresses of its batch and
\* brought the index down to exactly 0.
C23_Witness ==
    /\ last.op = "BatchRollback" /\ last.started0
    /\ Len(reissue[last.pool]) >= 1
    /\ pools[last.pool].index = 0
    /\ pools[last.pool].cursor = 0

====
